---- MODULE Spec2Model ----
(***************************************************************************)
(* A model of analyze_sales.py: one run of main() over a sales CSV.        *)
(*                                                                         *)
(* Column names (the CSV header is Japanese; the model uses the names of   *)
(* the specification):                                                     *)
(*   doc                   伝票番号                                        *)
(*   ship_date             出荷日                                          *)
(*   billing_group_id      請求先顧客法人グループID                        *)
(*   billing_group_name    請求先顧客法人グループ法人名                    *)
(*   store_id              出荷先顧客店舗ID                                *)
(*   store_name            出荷先顧客店舗名                                *)
(*   region                所在都道府県                                    *)
(*   customer_rep_id       顧客担当者ID                                    *)
(*   customer_rep_name     顧客担当者名                                    *)
(*   company_rep_id        自社担当者ID                                    *)
(*   company_rep_name      出荷時自社担当者名                              *)
(*   company_rep_territory 出荷時自社担当者テリトリコード                  *)
(*   product_group         製品グループ名                                  *)
(*   product_subcategory   製品サブカテゴリ名                              *)
(*   product_name          製品名称                                        *)
(*   unit_price            単価                                            *)
(*   quantity              個数                                            *)
(*   total_amount          合計出荷金額                                    *)
(*   is_return_flag        返品フラグ                                      *)
(*   is_free_flag          無償出荷フラグ                                  *)
(*                                                                         *)
(* Money (unit_price, total_amount, the tolerance) is counted in           *)
(* thousandths of the monetary unit, so that round(2) is a real rounding:  *)
(* 12.5 is 12500, the default tolerance 0.01 is 10.  Arithmetic is exact.  *)
(* A date is <<year, month, day>>, NaT is <<>>; a year_month is            *)
(* <<year, month>>, and the string "NaT" that Period.astype(str) gives for *)
(* NaT is <<>>.  A missing cell of a text column is NULL.  `row` is the    *)
(* index label read_csv gives a line.                                      *)
(***************************************************************************)
EXTENDS Integers, Sequences, FiniteSets, TLC

VARIABLES
    columns,    \* the header of the input file: the columns read_csv returns
    csv,        \* the lines of the input file, as read_csv returns them
    cfg,        \* AnalysisConfig: start_date, end_date, price_multiplication_tolerance
    pc,         \* the statement of main() that runs next
    df_all,     \* main: df_all
    categories, \* the categories of each categorical column (set by astype("category"))
    df,         \* main: df
    q,          \* main: q
    kpis,       \* main: kpis
    mon,        \* main: mon
    cg,         \* main: cg
    store,      \* main: store
    prod,       \* main: prod
    pref,       \* main: pref
    reps_c,     \* main: reps_c
    reps_comp,  \* main: reps_comp
    pq,         \* main: pq
    html_full,  \* main: html_full (TRUE once built)
    files       \* the names of the files written to output_dir

vars == <<columns, csv, cfg, pc, df_all, categories, df, q, kpis, mon, cg, store, prod,
          pref, reps_c, reps_comp, pq, html_full, files>>

-----------------------------------------------------------------------------
(* Values *)

NULL == "NULL"
NaT == <<>>
None == <<>>
NaTStr == <<>>

\* float results: a quotient num/den, NaN, or a signed infinity
Ratio(n, d) == [kind |-> "num", num |-> n, den |-> d]
NaN == [kind |-> "nan", num |-> 0, den |-> 1]
PosInf == [kind |-> "inf", num |-> 1, den |-> 0]
NegInf == [kind |-> "-inf", num |-> 0 - 1, den |-> 0]

\* float division x / y as numpy does it on float64 (no exception on y = 0)
Divide(x, y) ==
    IF y # 0 THEN Ratio(x, y)
    ELSE IF x > 0 THEN PosInf
    ELSE IF x < 0 THEN NegInf
    ELSE NaN

Abs(x) == IF x < 0 THEN 0 - x ELSE x

RECURSIVE SumSeq(_)
SumSeq(s) == IF s = <<>> THEN 0 ELSE Head(s) + SumSeq(Tail(s))

Col(d, c) == [i \in 1..Len(d) |-> d[i][c]]

\* a frame as the sequence of its rows, each row computed once
Rows(t) == SubSeq(t, 1, Len(t))

\* Series.round(2): numpy rounds x * 100 half to even
Round2(x) ==
    LET lo == (x \div 10) * 10
        r  == x % 10
    IN  IF r < 5 THEN lo
        ELSE IF r > 5 THEN lo + 10
        ELSE IF (x \div 10) % 2 = 0 THEN lo ELSE lo + 10

\* Timestamp comparison; any comparison with NaT is False
DateLE(a, b) ==
    /\ a # NaT
    /\ b # NaT
    /\ \/ a[1] < b[1]
       \/ a[1] = b[1] /\ a[2] < b[2]
       \/ a[1] = b[1] /\ a[2] = b[2] /\ a[3] <= b[3]

-----------------------------------------------------------------------------
(* load_sales_csv *)

CategoryCols ==
    {"billing_group_id", "billing_group_name", "store_id", "store_name",
     "region", "customer_rep_id", "customer_rep_name", "company_rep_id",
     "company_rep_name", "company_rep_territory", "product_group",
     "product_subcategory", "product_name"}

\* pd.to_datetime of one cell: an empty cell is NaT
to_datetime(cell) == IF cell.kind = "date" THEN cell.ymd ELSE NaT

\* pd.to_datetime(df["出荷日"]) raises on a cell that is no date (errors="raise")
to_datetime_raises(c) == \E i \in 1..Len(c) : c[i].ship_date.kind = "bad"

\* .dt.to_period("M").astype(str)
year_month_of(date) == IF date = NaT THEN NaTStr ELSE <<date[1], date[2]>>

load_row(r) ==
    [r EXCEPT !.ship_date = to_datetime(r.ship_date)]
        @@ [year_month |-> year_month_of(to_datetime(r.ship_date))]

load_sales_csv(c) == [i \in 1..Len(c) |-> load_row(c[i])]

\* for c in category_cols: if c in df.columns: astype("category"); the
\* categories are the distinct non-null values, and a column that is not in
\* the file is passed over
category_values(d, cols) ==
    [c \in CategoryCols |->
        IF c \in cols THEN {d[i][c] : i \in 1..Len(d)} \ {NULL} ELSE {}]

-----------------------------------------------------------------------------
(* filter_by_date *)

\* the start of the window taken as exclusive
filter_start_exclusive(d, start) ==
    IF start # None
    THEN SelectSeq(d, LAMBDA r : DateLE(start, r.ship_date) /\ r.ship_date # start)
    ELSE d

filter_start(d, start) ==
    IF start # None THEN SelectSeq(d, LAMBDA r : DateLE(start, r.ship_date)) ELSE d

filter_end(d, end) ==
    IF end # None THEN SelectSeq(d, LAMBDA r : DateLE(r.ship_date, end)) ELSE d

filter_by_date(d, start, end) == filter_end(filter_start(d, start), end)

-----------------------------------------------------------------------------
(* run_quality_checks *)

NoDiff == <<>>

\* the rule without .round(2)
mask_free_nonzero_unrounded(r) == r.is_free_flag = 1 /\ r.total_amount # 0

mask_free_nonzero(r) == r.is_free_flag = 1 /\ Round2(r.total_amount) # 0

\* the rule with "and" for "or"
mask_return_bad_both(r) ==
    r.is_return_flag = 1 /\ (r.quantity >= 0 /\ r.total_amount >= 0)

mask_return_bad(r) ==
    r.is_return_flag = 1 /\ (r.quantity >= 0 \/ r.total_amount >= 0)

mask_paid(r) ==
    r.is_free_flag = 0 /\ r.is_return_flag = 0 /\ r.total_amount > 0

diff(r) == r.unit_price * r.quantity - r.total_amount

\* the rule with >= for >
mask_mismatch_inclusive(r, tolerance) == Abs(diff(r)) >= tolerance

mask_mismatch(r, tolerance) == Abs(diff(r)) > tolerance

Labelled(rows, label) ==
    [i \in 1..Len(rows) |-> [rec |-> rows[i], issue |-> label, calc_diff |-> NoDiff]]

\* diff: the differences of the normal paid rows, indexed by their row label
diff_series(d) ==
    [l \in {d[i].row : i \in {j \in 1..Len(d) : mask_paid(d[j])}} |->
        diff(d[CHOOSE i \in 1..Len(d) : d[i].row = l])]

\* tmp["calc_diff"] = diff.loc[mask_mismatch]: aligned on the row label
LabelledDiff(rows, label, series) ==
    [i \in 1..Len(rows) |->
        [rec |-> rows[i], issue |-> label, calc_diff |-> <<series[rows[i].row]>>]]

issues_free(d) ==
    Labelled(SelectSeq(d, mask_free_nonzero), "FREE_NONZERO_AMOUNT")

issues_return(d) ==
    Labelled(SelectSeq(d, mask_return_bad), "RETURN_SIGN_MISMATCH")

issues_price(d, tolerance) ==
    LabelledDiff(SelectSeq(SelectSeq(d, mask_paid),
                           LAMBDA r : mask_mismatch(r, tolerance)),
                 "PRICE_QTY_MISMATCH", diff_series(d))

\* run_quality_checks reporting a record under the first rule it violates only
run_quality_checks_first_rule(d, tolerance) ==
    issues_free(d)
        \o Labelled(SelectSeq(d, LAMBDA r : mask_return_bad(r) /\ ~mask_free_nonzero(r)),
                    "RETURN_SIGN_MISMATCH")
        \o issues_price(d, tolerance)

\* pd.concat(issues, ignore_index=True); with no issue, df.head(0)
run_quality_checks(d, tolerance) ==
    issues_free(d) \o issues_return(d) \o issues_price(d, tolerance)

-----------------------------------------------------------------------------
(* compute_core_kpis *)

paid_rows(d) == SelectSeq(d, LAMBDA r : r.total_amount > 0)
return_rows(d) == SelectSeq(d, LAMBDA r : r.is_return_flag = 1)

sum_amount(d) == SumSeq(Col(d, "total_amount"))
\* the sum of the amounts with their signs
sum_abs_amount_signed(d) == SumSeq(Col(d, "total_amount"))

sum_abs_amount(d) == SumSeq([i \in 1..Len(d) |-> Abs(d[i].total_amount)])
sum_quantity(d) == SumSeq(Col(d, "quantity"))
sum_free(d) == SumSeq(Col(d, "is_free_flag"))
\* ("伝票番号", "count"): the rows whose document number is not null
count_doc(d) == Len(SelectSeq(d, LAMBDA r : r.doc # NULL))

\* the ratio reported as 0 when the denominator is not positive
rate_or_zero(num, den) == IF den > 0 THEN Ratio(num, den) ELSE Ratio(0, 1)

rate(num, den) == IF den > 0 THEN Ratio(num, den) ELSE NaN

compute_core_kpis(d) ==
    LET paid_sales == sum_amount(paid_rows(d))
        net_sales  == sum_amount(d)
        returns    == sum_abs_amount(return_rows(d))
        free_count == Len(SelectSeq(d, LAMBDA r : r.is_free_flag = 1))
        total_rows == Len(d)
        qty_paid   == sum_quantity(paid_rows(d))
    IN  [NetSales     |-> net_sales,
         PaidSales    |-> paid_sales,
         Returns      |-> returns,
         ReturnRate   |-> rate(returns, paid_sales),
         FreeCount    |-> free_count,
         FreeRate     |-> rate(free_count, total_rows),
         Transactions |-> total_rows,
         AvgPricePaid |-> rate(paid_sales, qty_paid)]

-----------------------------------------------------------------------------
(* groupby(keys, observed=False) *)

\* the labels of the text columns in the order pandas sorts categories
SortedLabels == <<"A", "B", "C">>

LabelRank(v) == CHOOSE i \in 1..Len(SortedLabels) : SortedLabels[i] = v

KeyOf(r, keys) == [i \in 1..Len(keys) |-> r[keys[i]]]

\* dropna=True: a row with a missing key belongs to no group
HasNullKey(r, keys) ==
    \E i \in 1..Len(keys) : keys[i] \in CategoryCols /\ r[keys[i]] = NULL

IsCategorical(keys) == \A i \in 1..Len(keys) : keys[i] \in CategoryCols

observed_keys(d, keys) ==
    {KeyOf(d[i], keys) : i \in {j \in 1..Len(d) : ~HasNullKey(d[j], keys)}}

\* observed=False on categorical keys: every combination of the categories is
\* a group, whether or not a row carries it
category_product(cats, keys) ==
    {k \in [1..Len(keys) -> UNION {cats[keys[i]] : i \in 1..Len(keys)}] :
        \A i \in 1..Len(keys) : k[i] \in cats[keys[i]]}

group_keys(d, cats, keys) ==
    IF IsCategorical(keys) THEN category_product(cats, keys)
    ELSE observed_keys(d, keys)

LabelKeyLess(a, b) ==
    \E i \in 1..Len(a) :
        /\ \A j \in 1..(i - 1) : a[j] = b[j]
        /\ LabelRank(a[i]) < LabelRank(b[i])

\* the order of the strings "YYYY-MM" and "NaT": "NaT" sorts after every month
YearMonthLess(a, b) ==
    /\ a # NaTStr
    /\ \/ b = NaTStr
       \/ a[1] < b[1]
       \/ a[1] = b[1] /\ a[2] < b[2]

YearMonthKeyLess(a, b) == YearMonthLess(a[1], b[1])

KeyLess(keys, a, b) ==
    IF IsCategorical(keys) THEN LabelKeyLess(a, b) ELSE YearMonthKeyLess(a, b)

\* groupby(sort=True): the group keys in ascending order
sorted_keys(d, cats, keys) ==
    LET S == group_keys(d, cats, keys)
        pos(k) == 1 + Cardinality({j \in S : KeyLess(keys, j, k)})
    IN  [i \in 1..Cardinality(S) |-> CHOOSE k \in S : pos(k) = i]

rows_of(d, keys, k) ==
    SelectSeq(d, LAMBDA r : ~HasNullKey(r, keys) /\ KeyOf(r, keys) = k)

\* .agg(NetSales, Quantity, Transactions, FreeCount) of one group
base_row(d, keys, k) ==
    LET g == rows_of(d, keys, k)
    IN  [key          |-> k,
         NetSales     |-> sum_amount(g),
         Quantity     |-> sum_quantity(g),
         Transactions |-> count_doc(g),
         FreeCount    |-> sum_free(g)]

\* df[df["返品フラグ"] == 1].groupby(keys)[amount].apply(lambda s: s.abs().sum()):
\* a value for every group that has a return (the other groups are filled
\* with 0 after the merge, whatever apply gives for them)
ret_series(d, keys) ==
    [k \in observed_keys(return_rows(d), keys) |->
        sum_abs_amount(rows_of(return_rows(d), keys, k))]

\* df[df["合計出荷金額"] > 0].groupby(keys)[amount].sum()
paid_series(d, keys) ==
    [k \in observed_keys(paid_rows(d), keys) |->
        sum_amount(rows_of(paid_rows(d), keys, k))]

\* df[df["合計出荷金額"] > 0].groupby(keys)["個数"].sum()
paid_qty_series(d, keys) ==
    [k \in observed_keys(paid_rows(d), keys) |->
        sum_quantity(rows_of(paid_rows(d), keys, k))]

\* merge(series, on=keys, how="left") followed by fillna(0.0)
merge_left_fill(series, k) == IF k \in DOMAIN series THEN series[k] ELSE 0

\* FreeCount / Transactions.replace({0: np.nan})
free_rate(r) ==
    IF r.Transactions = 0 THEN NaN ELSE Ratio(r.FreeCount, r.Transactions)

\* sort_values("NetSales", ascending=False); on the short tables of the model
\* numpy's quicksort is an insertion sort, so ties keep their order
sort_desc_net_sales(t) ==
    LET r == Rows(t)
        pos(i) == 1 + Cardinality({j \in 1..Len(r) : r[j].NetSales > r[i].NetSales})
                    + Cardinality({j \in 1..(i - 1) : r[j].NetSales = r[i].NetSales})
    IN  Rows([p \in 1..Len(r) |-> r[CHOOSE i \in 1..Len(r) : pos(i) = p]])

-----------------------------------------------------------------------------
(* monthly_summary *)

YoYPeriods == 12

\* Series.pct_change(periods): x[i] / x[i - periods] - 1, NaN on the first rows
pct_change(x, periods) ==
    [i \in 1..Len(x) |->
        IF i <= periods THEN NaN
        ELSE Divide(x[i] - x[i - periods], x[i - periods])]

monthly_row(d, k) ==
    LET b == base_row(d, <<"year_month">>, k)
        paid == merge_left_fill(paid_series(d, <<"year_month">>), k)
        ret  == merge_left_fill(ret_series(d, <<"year_month">>), k)
    IN  [year_month   |-> k[1],
         NetSales     |-> b.NetSales,
         Quantity     |-> b.Quantity,
         Transactions |-> b.Transactions,
         FreeCount    |-> b.FreeCount,
         PaidSales    |-> paid,
         Returns      |-> ret,
         ReturnRate   |-> rate(ret, paid),
         FreeRate     |-> free_rate(b)]

monthly_summary(d, cats) ==
    LET ks  == sorted_keys(d, cats, <<"year_month">>)
        g   == [i \in 1..Len(ks) |-> monthly_row(d, ks[i])]
        mom == pct_change(Col(g, "NetSales"), 1)
        yoy == pct_change(Col(g, "NetSales"), YoYPeriods)
    IN  Rows([i \in 1..Len(g) |->
                g[i] @@ [MoM_NetSales |-> mom[i], YoY_NetSales |-> yoy[i]]])

-----------------------------------------------------------------------------
(* customer_hierarchy_summaries *)

cg_keys == <<"billing_group_id", "billing_group_name">>
st_keys == cg_keys \o <<"store_id", "store_name">>

hierarchy_row(d, keys, k) ==
    LET ret  == merge_left_fill(ret_series(d, keys), k)
        paid == merge_left_fill(paid_series(d, keys), k)
    IN  base_row(d, keys, k)
            @@ [Returns |-> ret, PaidSales |-> paid, ReturnRate |-> rate(ret, paid)]

\* the merges made with pandas' default how="inner": a group without a
\* return or without a paid record is lost
hierarchy_table_inner(d, cats, keys) ==
    LET ks == sorted_keys(d, cats, keys)
        t  == [i \in 1..Len(ks) |-> hierarchy_row(d, keys, ks[i])]
    IN  sort_desc_net_sales(
            SelectSeq(t, LAMBDA r : /\ r.key \in DOMAIN ret_series(d, keys)
                                    /\ r.key \in DOMAIN paid_series(d, keys)))

hierarchy_table(d, cats, keys) ==
    LET ks == sorted_keys(d, cats, keys)
    IN  sort_desc_net_sales([i \in 1..Len(ks) |-> hierarchy_row(d, keys, ks[i])])

customer_hierarchy_summaries(d, cats) ==
    <<hierarchy_table(d, cats, cg_keys), hierarchy_table(d, cats, st_keys)>>

-----------------------------------------------------------------------------
(* product_summaries *)

product_keys == <<"product_group", "product_subcategory", "product_name">>

product_row(d, k) ==
    LET ret      == merge_left_fill(ret_series(d, product_keys), k)
        paid     == merge_left_fill(paid_series(d, product_keys), k)
        paid_qty == merge_left_fill(paid_qty_series(d, product_keys), k)
    IN  base_row(d, product_keys, k)
            @@ [Returns |-> ret, PaidSales |-> paid, PaidQty |-> paid_qty,
                AvgPricePaid |-> rate(paid, paid_qty)]

product_summaries(d, cats) ==
    LET ks == sorted_keys(d, cats, product_keys)
    IN  sort_desc_net_sales([i \in 1..Len(ks) |-> product_row(d, ks[i])])

\* ProductSalesAnalysis.py, the roll-up by group alone:
\* df.groupby("製品グループ名", as_index=False).agg(NetSales=("合計出荷金額", "sum"))
product_group_keys == <<"product_group">>

product_group_rollup(d) ==
    [k \in observed_keys(d, product_group_keys) |->
        sum_amount(rows_of(d, product_group_keys, k))]

-----------------------------------------------------------------------------
(* prefecture_summary *)

prefecture_key == <<"region">>

\* ("出荷先顧客店舗ID", "nunique"): the distinct non-null store ids
nunique_store(g) == Cardinality({g[i].store_id : i \in 1..Len(g)} \ {NULL})

prefecture_row(d, k) ==
    LET b    == base_row(d, prefecture_key, k)
        ret  == merge_left_fill(ret_series(d, prefecture_key), k)
        paid == merge_left_fill(paid_series(d, prefecture_key), k)
    IN  b @@ [Stores |-> nunique_store(rows_of(d, prefecture_key, k)),
              Returns |-> ret, PaidSales |-> paid,
              ReturnRate |-> rate(ret, paid), FreeRate |-> free_rate(b)]

prefecture_summary(d, cats) ==
    LET ks == sorted_keys(d, cats, prefecture_key)
    IN  sort_desc_net_sales([i \in 1..Len(ks) |-> prefecture_row(d, ks[i])])

-----------------------------------------------------------------------------
(* reps_summaries *)

cust_keys == <<"customer_rep_id", "customer_rep_name">>
comp_keys == <<"company_rep_id", "company_rep_name", "company_rep_territory">>

reps_row(d, keys, k) ==
    base_row(d, keys, k) @@ [Returns |-> merge_left_fill(ret_series(d, keys), k)]

reps_table(d, cats, keys) ==
    LET ks == sorted_keys(d, cats, keys)
    IN  sort_desc_net_sales([i \in 1..Len(ks) |-> reps_row(d, keys, ks[i])])

reps_summaries(d, cats) ==
    <<reps_table(d, cats, cust_keys), reps_table(d, cats, comp_keys)>>

-----------------------------------------------------------------------------
(* price_quantity_bins *)

BinEdges == <<0, 10, 20, 50, 100>>
BinLabels == <<"<=10", "11-20", "21-50", "51-100", ">100">>

\* pd.cut(bins=[0, 10, 20, 50, 100, inf], right=True): (lo, hi]; NaN outside
qty_bin(quantity) ==
    IF quantity <= BinEdges[1] THEN NULL
    ELSE BinLabels[CHOOSE i \in 1..Len(BinEdges) :
            /\ BinEdges[i] < quantity
            /\ \A j \in (i + 1)..Len(BinEdges) : quantity <= BinEdges[j]]

bin_row(d, label) ==
    LET g == SelectSeq(d, LAMBDA r : qty_bin(r.quantity) = label)
    IN  [qty_bin      |-> label,
         PaidSales    |-> sum_amount(g),
         PaidQty      |-> sum_quantity(g),
         Transactions |-> count_doc(g),
         AvgPrice     |-> IF sum_quantity(g) = 0 THEN NaN
                          ELSE Ratio(sum_amount(g), sum_quantity(g))]

price_quantity_bins(d) ==
    IF paid_rows(d) = <<>> THEN <<>>
    ELSE Rows([i \in 1..Len(BinLabels) |-> bin_row(paid_rows(d), BinLabels[i])])

-----------------------------------------------------------------------------
(* The columns each function of main() reads, and the frame it leaves *)

Range(s) == {s[i] : i \in 1..Len(s)}

AllColumns ==
    {"doc", "ship_date", "unit_price", "quantity", "total_amount",
     "is_return_flag", "is_free_flag"} \cup CategoryCols

\* df[c], groupby(keys) and .agg((c, f)) raise KeyError when the frame has no
\* column c
KeyError(cols, needed) == ~(needed \subseteq cols)

\* df["出荷日"]; the categorical columns are read only if present
load_columns == {"ship_date"}

quality_columns ==
    {"is_free_flag", "total_amount", "is_return_flag", "quantity", "unit_price"}

kpis_columns == {"total_amount", "is_return_flag", "is_free_flag", "quantity"}

\* .agg(NetSales, Quantity, Transactions, FreeCount) and the secondary
\* groupings on the return flag and on the amount
agg_columns == {"total_amount", "quantity", "doc", "is_free_flag", "is_return_flag"}

monthly_columns == agg_columns
customer_columns == agg_columns \cup Range(st_keys)
product_columns == agg_columns \cup Range(product_keys)
prefecture_columns == agg_columns \cup Range(prefecture_key) \cup {"store_id"}
reps_columns == agg_columns \cup Range(cust_keys) \cup Range(comp_keys)

\* price_quantity_bins returns before pd.cut when no row is paid
price_quantity_bins_raises(d, cols) ==
    \/ KeyError(cols, {"total_amount"})
    \/ paid_rows(d) # <<>> /\ KeyError(cols, {"quantity", "doc"})

\* run_quality_checks setting the label on the frame it was passed:
\* df["issue"] = ... instead of tmp = df.loc[mask].copy(); tmp["issue"] = ...
run_quality_checks_frame_labelled(d) ==
    [i \in 1..Len(d) |->
        d[i] @@ [issue |-> IF mask_free_nonzero(d[i]) THEN "FREE_NONZERO_AMOUNT"
                           ELSE NULL]]

\* The frame main() passed to a function, as the call leaves it.
\* run_quality_checks sets issue and calc_diff on df.loc[mask].copy() and on
\* df.head(0).copy(); the frame itself is only read.
run_quality_checks_frame(d) == d

\* compute_core_kpis only reads: df.loc[mask, column].sum()
compute_core_kpis_frame(d) == d

\* the aggregations read df through groupby(...) and df[mask].groupby(...);
\* the columns they add (PaidSales, ReturnRate, ...) are set on the result
monthly_summary_frame(d) == d
customer_hierarchy_summaries_frame(d) == d
product_summaries_frame(d) == d
prefecture_summary_frame(d) == d
reps_summaries_frame(d) == d

\* price_quantity_bins sets qty_bin on d = df[...].copy()
price_quantity_bins_frame(d) == d

-----------------------------------------------------------------------------
(* main *)

CsvNames ==
    {"monthly_summary", "customer_group_summary", "store_summary",
     "product_summary", "prefecture_summary", "reps_customer_summary",
     "reps_company_summary", "price_quantity_bins", "quality_issues"}

\* the statements of main() in the order they run
Statements ==
    <<"load", "filter", "quality", "kpis", "monthly", "customer", "product",
      "prefecture", "reps", "bins", "figures", "save_csv", "save_html",
      "print", "done">>

StatementIndex(p) == CHOOSE i \in 1..Len(Statements) : Statements[i] = p

\* the statement p of main() has run to its end
Ran(p) == pc # "raised" /\ StatementIndex(pc) > StatementIndex(p)

\* df_all = load_sales_csv(cfg.input_csv)
MainLoad ==
    /\ pc = "load"
    /\ IF KeyError(columns, load_columns) \/ to_datetime_raises(csv)
       THEN /\ pc' = "raised"
            /\ UNCHANGED <<df_all, categories>>
       ELSE /\ pc' = "filter"
            /\ df_all' = load_sales_csv(csv)
            /\ categories' = category_values(load_sales_csv(csv), columns)
    /\ UNCHANGED <<columns, csv, cfg, df, q, kpis, mon, cg, store, prod, pref,
                   reps_c, reps_comp, pq, html_full, files>>

\* df = filter_by_date(df_all, cfg.start_date, cfg.end_date)
MainFilter ==
    /\ pc = "filter"
    /\ df' = filter_by_date(df_all, cfg.start_date, cfg.end_date)
    /\ pc' = "quality"
    /\ UNCHANGED <<columns, csv, cfg, df_all, categories, q, kpis, mon, cg,
                   store, prod, pref, reps_c, reps_comp, pq, html_full, files>>

\* a quality step that writes quality_issues.csv as soon as q is computed
MainQuality_saving ==
    /\ pc = "quality"
    /\ IF KeyError(columns, quality_columns)
       THEN /\ pc' = "raised"
            /\ UNCHANGED <<df, q, files>>
       ELSE /\ q' = run_quality_checks(df, cfg.price_multiplication_tolerance)
            /\ df' = run_quality_checks_frame(df)
            /\ files' = files \cup {"quality_issues"}
            /\ pc' = "kpis"
    /\ UNCHANGED <<columns, csv, cfg, df_all, categories, kpis, mon, cg, store,
                   prod, pref, reps_c, reps_comp, pq, html_full>>

\* q = run_quality_checks(df, cfg.price_multiplication_tolerance)
MainQuality ==
    /\ pc = "quality"
    /\ IF KeyError(columns, quality_columns)
       THEN /\ pc' = "raised"
            /\ UNCHANGED <<df, q>>
       ELSE /\ q' = run_quality_checks(df, cfg.price_multiplication_tolerance)
            /\ df' = run_quality_checks_frame(df)
            /\ pc' = "kpis"
    /\ UNCHANGED <<columns, csv, cfg, df_all, categories, kpis, mon, cg, store,
                   prod, pref, reps_c, reps_comp, pq, html_full, files>>

\* kpis = compute_core_kpis(df)
MainKpis ==
    /\ pc = "kpis"
    /\ IF KeyError(columns, kpis_columns)
       THEN /\ pc' = "raised"
            /\ UNCHANGED <<df, kpis>>
       ELSE /\ kpis' = compute_core_kpis(df)
            /\ df' = compute_core_kpis_frame(df)
            /\ pc' = "monthly"
    /\ UNCHANGED <<columns, csv, cfg, df_all, categories, q, mon, cg, store,
                   prod, pref, reps_c, reps_comp, pq, html_full, files>>

\* mon = monthly_summary(df)
MainMonthly ==
    /\ pc = "monthly"
    /\ IF KeyError(columns, monthly_columns)
       THEN /\ pc' = "raised"
            /\ UNCHANGED <<df, mon>>
       ELSE /\ mon' = monthly_summary(df, categories)
            /\ df' = monthly_summary_frame(df)
            /\ pc' = "customer"
    /\ UNCHANGED <<columns, csv, cfg, df_all, categories, q, kpis, cg, store,
                   prod, pref, reps_c, reps_comp, pq, html_full, files>>

\* cg, store = customer_hierarchy_summaries(df)
MainCustomer ==
    /\ pc = "customer"
    /\ IF KeyError(columns, customer_columns)
       THEN /\ pc' = "raised"
            /\ UNCHANGED <<df, cg, store>>
       ELSE /\ LET t == customer_hierarchy_summaries(df, categories)
               IN  cg' = t[1] /\ store' = t[2]
            /\ df' = customer_hierarchy_summaries_frame(df)
            /\ pc' = "product"
    /\ UNCHANGED <<columns, csv, cfg, df_all, categories, q, kpis, mon, prod,
                   pref, reps_c, reps_comp, pq, html_full, files>>

\* prod = product_summaries(df)
MainProduct ==
    /\ pc = "product"
    /\ IF KeyError(columns, product_columns)
       THEN /\ pc' = "raised"
            /\ UNCHANGED <<df, prod>>
       ELSE /\ prod' = product_summaries(df, categories)
            /\ df' = product_summaries_frame(df)
            /\ pc' = "prefecture"
    /\ UNCHANGED <<columns, csv, cfg, df_all, categories, q, kpis, mon, cg,
                   store, pref, reps_c, reps_comp, pq, html_full, files>>

\* pref = prefecture_summary(df)
MainPrefecture ==
    /\ pc = "prefecture"
    /\ IF KeyError(columns, prefecture_columns)
       THEN /\ pc' = "raised"
            /\ UNCHANGED <<df, pref>>
       ELSE /\ pref' = prefecture_summary(df, categories)
            /\ df' = prefecture_summary_frame(df)
            /\ pc' = "reps"
    /\ UNCHANGED <<columns, csv, cfg, df_all, categories, q, kpis, mon, cg,
                   store, prod, reps_c, reps_comp, pq, html_full, files>>

\* reps_c, reps_comp = reps_summaries(df)
MainReps ==
    /\ pc = "reps"
    /\ IF KeyError(columns, reps_columns)
       THEN /\ pc' = "raised"
            /\ UNCHANGED <<df, reps_c, reps_comp>>
       ELSE /\ LET t == reps_summaries(df, categories)
               IN  reps_c' = t[1] /\ reps_comp' = t[2]
            /\ df' = reps_summaries_frame(df)
            /\ pc' = "bins"
    /\ UNCHANGED <<columns, csv, cfg, df_all, categories, q, kpis, mon, cg,
                   store, prod, pref, pq, html_full, files>>

\* pq = price_quantity_bins(df)
MainBins ==
    /\ pc = "bins"
    /\ IF price_quantity_bins_raises(df, columns)
       THEN /\ pc' = "raised"
            /\ UNCHANGED <<df, pq>>
       ELSE /\ pq' = price_quantity_bins(df)
            /\ df' = price_quantity_bins_frame(df)
            /\ pc' = "figures"
    /\ UNCHANGED <<columns, csv, cfg, df_all, categories, q, kpis, mon, cg,
                   store, prod, pref, reps_c, reps_comp, html_full, files>>

\* html_parts = build_figures(...); html_full = build_dashboard_html(...).
\* The figures are drawn by plotly, which is not part of the sources: the
\* call returns or raises.
MainFigures ==
    /\ pc = "figures"
    /\ \E ok \in BOOLEAN :
        IF ok THEN html_full' = TRUE /\ pc' = "save_csv"
        ELSE html_full' = html_full /\ pc' = "raised"
    /\ UNCHANGED <<columns, csv, cfg, df_all, categories, df, q, kpis, mon, cg,
                   store, prod, pref, reps_c, reps_comp, pq, files>>

\* save_dataframes(cfg.output_dir, outputs)
MainSaveDataframes ==
    /\ pc = "save_csv"
    /\ files' = files \cup CsvNames
    /\ pc' = "save_html"
    /\ UNCHANGED <<columns, csv, cfg, df_all, categories, df, q, kpis, mon, cg,
                   store, prod, pref, reps_c, reps_comp, pq, html_full>>

\* html_path = save_dashboard_html(cfg.output_dir, html_full, ...)
MainSaveDashboardHtml ==
    /\ pc = "save_html"
    /\ files' = files \cup {"sales_dashboard"}
    /\ pc' = "print"
    /\ UNCHANGED <<columns, csv, cfg, df_all, categories, df, q, kpis, mon, cg,
                   store, prod, pref, reps_c, reps_comp, pq, html_full>>

\* the KPI recap and the list of the files
MainPrint ==
    /\ pc = "print"
    /\ pc' = "done"
    /\ UNCHANGED <<columns, csv, cfg, df_all, categories, df, q, kpis, mon, cg,
                   store, prod, pref, reps_c, reps_comp, pq, html_full, files>>

Next ==
    \/ MainLoad
    \/ MainFilter
    \/ MainQuality
    \/ MainKpis
    \/ MainMonthly
    \/ MainCustomer
    \/ MainProduct
    \/ MainPrefecture
    \/ MainReps
    \/ MainBins
    \/ MainFigures
    \/ MainSaveDataframes
    \/ MainSaveDashboardHtml
    \/ MainPrint

-----------------------------------------------------------------------------
(* Inputs *)

MaxRecords == 2

\* price_multiplication_tolerance: float = 0.01
DefaultTolerance == 10

DateCell(ymd) == [kind |-> "date", ymd |-> ymd]
EmptyCell == [kind |-> "empty", ymd |-> NaT]
BadCell == [kind |-> "bad", ymd |-> NaT]

D1 == <<2023, 1, 10>>
D2 == <<2023, 2, 20>>

\* a line of the file: a normal paid sale of 5 units at 10.00, total 50.00
Line ==
    [row |-> 0, doc |-> "A", ship_date |-> DateCell(D1),
     billing_group_id |-> "A", billing_group_name |-> "A",
     store_id |-> "A", store_name |-> "A", region |-> "A",
     customer_rep_id |-> "A", customer_rep_name |-> "A",
     company_rep_id |-> "A", company_rep_name |-> "A",
     company_rep_territory |-> "A",
     product_group |-> "A", product_subcategory |-> "A", product_name |-> "A",
     unit_price |-> 10000, quantity |-> 5, total_amount |-> 50000,
     is_return_flag |-> 0, is_free_flag |-> 0]

\* the files of at most MaxRecords lines drawn from Lines; read_csv labels
\* the lines with a RangeIndex
Files(Lines) ==
    UNION {{[i \in 1..n |-> [v[i] EXCEPT !.row = i]] : v \in [1..n -> Lines]} :
           n \in 0..MaxRecords}

NoKpis == compute_core_kpis(<<>>)

\* Headers: the headers the file may have
InitState(Lines, Configs, Headers) ==
    /\ columns \in Headers
    /\ csv \in Files(Lines)
    /\ cfg \in Configs
    /\ pc = "load"
    /\ df_all = <<>>
    /\ categories = [c \in CategoryCols |-> {}]
    /\ df = <<>>
    /\ q = <<>>
    /\ kpis = NoKpis
    /\ mon = <<>>
    /\ cg = <<>>
    /\ store = <<>>
    /\ prod = <<>>
    /\ pref = <<>>
    /\ reps_c = <<>>
    /\ reps_comp = <<>>
    /\ pq = <<>>
    /\ html_full = FALSE
    /\ files = {}

\* a file with every column
InitWith(Lines, Configs) == InitState(Lines, Configs, {AllColumns})

\* Runs of main: lines that differ in date, region and amount, under every
\* window over D1 and D2 (the inverted one included)
MainLines ==
    {[Line EXCEPT !.ship_date = d, !.region = g, !.unit_price = s[1],
                  !.quantity = s[2], !.total_amount = s[3], !.is_free_flag = s[4]] :
        d \in {DateCell(D1), DateCell(D2), EmptyCell, BadCell},
        g \in {"A", NULL},
        s \in {<<10000, 5, 50000, 0>>, <<0, 1, 0, 1>>}}

MainConfigs ==
    [start_date : {None, D1, D2}, end_date : {None, D1, D2},
     price_multiplication_tolerance : {DefaultTolerance}]

Init == InitWith(MainLines, MainConfigs)

Spec == Init /\ [][Next]_vars

-----------------------------------------------------------------------------
(* Inputs of the quality rules: every pair of flags on lines whose price,   *)
(* quantity and amount sit on, inside and outside the tolerance and on      *)
(* both sides of zero                                                       *)

QualityLine(s, ret, free) ==
    [Line EXCEPT !.unit_price = s[1], !.quantity = s[2], !.total_amount = s[3],
                 !.is_return_flag = ret, !.is_free_flag = free]

QualityLines ==
    {QualityLine(s, ret, free) :
        ret \in {0, 1}, free \in {0, 1},
        s \in {<<10000, 5, 49990>>,         \* 10.00 x 5 against 49.99: off by the tolerance
               <<10000, 5, 49900>>,         \* against 49.90: off by +0.10
               <<10000, 5, 50011>>,         \* against 50.011: off by -0.011
               <<10000, 0 - 2, 0 - 100000>>, \* a return of 2 units, -100.00
               <<10000, 3, 0 - 50000>>,     \* a negative amount with a positive quantity
               <<0, 1, 4>>}}                \* 0.004, which rounds to 0.00
    \cup
    {QualityLine(s, 1, 0) :
        s \in {<<10000, 0 - 2, 0>>,         \* a return with amount 0
               <<10000, 0, 0 - 50000>>}}    \* a return with quantity 0

QualityConfigs ==
    [start_date : {None}, end_date : {None},
     price_multiplication_tolerance : {DefaultTolerance}]

InitQuality == InitWith(QualityLines, QualityConfigs)

\* main up to the quality check
NextQuality ==
    \/ MainLoad
    \/ MainFilter
    \/ MainQuality

SpecQuality == InitQuality /\ [][NextQuality]_vars

-----------------------------------------------------------------------------
(* The quality rules as the specification states them *)

RowsLabelled(r, label) == {j \in 1..Len(q) : q[j].rec = r /\ q[j].issue = label}

PriceQtyViolation(r) ==
    /\ r.is_free_flag = 0
    /\ r.is_return_flag = 0
    /\ r.total_amount > 0
    /\ \/ r.unit_price * r.quantity - r.total_amount > cfg.price_multiplication_tolerance
       \/ r.total_amount - r.unit_price * r.quantity > cfg.price_multiplication_tolerance

ReturnSignViolation(r) ==
    r.is_return_flag = 1 /\ ~(r.quantity < 0 /\ r.total_amount < 0)

FreeNonzeroViolation(r) == r.is_free_flag = 1 /\ Round2(r.total_amount) # 0

\* C2: once run_quality_checks has run, a record of df is labelled
\* PRICE_QTY_MISMATCH exactly when both flags are false, total_amount > 0 and
\* |unit_price * quantity - total_amount| > tolerance (strictly), and every
\* row so labelled carries calc_diff = unit_price * quantity - total_amount
\* of its own record.
C2_PriceQtyMismatch ==
    Ran("quality") =>
        /\ \A i \in 1..Len(df) :
            (RowsLabelled(df[i], "PRICE_QTY_MISMATCH") # {}) <=> PriceQtyViolation(df[i])
        /\ \A j \in 1..Len(q) :
            IF q[j].issue = "PRICE_QTY_MISMATCH"
            THEN /\ \E i \in 1..Len(df) : df[i] = q[j].rec
                 /\ q[j].calc_diff =
                      <<q[j].rec.unit_price * q[j].rec.quantity - q[j].rec.total_amount>>
            ELSE q[j].calc_diff = NoDiff

\* a run in which one normal paid record is off by exactly the tolerance and
\* is not labelled, and another is labelled with a negative calc_diff
C2_Witness ==
    /\ Ran("quality")
    /\ \E i \in 1..Len(df) :
        /\ mask_paid(df[i])
        /\ df[i].unit_price * df[i].quantity - df[i].total_amount
              = cfg.price_multiplication_tolerance
        /\ RowsLabelled(df[i], "PRICE_QTY_MISMATCH") = {}
    /\ \E j \in 1..Len(q) :
        /\ q[j].issue = "PRICE_QTY_MISMATCH"
        /\ q[j].calc_diff # NoDiff
        /\ q[j].calc_diff[1] < 0

\* C3: a record of df is labelled RETURN_SIGN_MISMATCH exactly when its
\* return flag is true and (quantity >= 0 or total_amount >= 0).
C3_ReturnSignMismatch ==
    Ran("quality") =>
        /\ \A i \in 1..Len(df) :
            (RowsLabelled(df[i], "RETURN_SIGN_MISMATCH") # {}) <=>
                (df[i].is_return_flag = 1
                    /\ (df[i].quantity >= 0 \/ df[i].total_amount >= 0))
        /\ \A j \in 1..Len(q) :
            q[j].issue = "RETURN_SIGN_MISMATCH" =>
                /\ q[j].rec.is_return_flag = 1
                /\ ~(q[j].rec.quantity < 0 /\ q[j].rec.total_amount < 0)

\* a run with a well-formed return (not labelled) and a return whose quantity
\* is positive while its amount is negative (labelled)
C3_Witness ==
    /\ Ran("quality")
    /\ \E i \in 1..Len(df) :
        /\ df[i].is_return_flag = 1
        /\ df[i].quantity < 0
        /\ df[i].total_amount < 0
        /\ RowsLabelled(df[i], "RETURN_SIGN_MISMATCH") = {}
    /\ \E j \in 1..Len(q) :
        /\ q[j].issue = "RETURN_SIGN_MISMATCH"
        /\ q[j].rec.quantity > 0
        /\ q[j].rec.total_amount < 0

\* C4: a free record whose rounded total_amount is not 0 appears exactly once
\* under FREE_NONZERO_AMOUNT; it appears under another label only if it meets
\* that rule's own condition; a free record whose rounded amount is 0 never
\* appears under FREE_NONZERO_AMOUNT.
C4_FreeNonzeroAmount ==
    Ran("quality") =>
        \A i \in 1..Len(df) :
            df[i].is_free_flag = 1 =>
                /\ Round2(df[i].total_amount) # 0 =>
                      Cardinality(RowsLabelled(df[i], "FREE_NONZERO_AMOUNT")) = 1
                /\ Round2(df[i].total_amount) = 0 =>
                      RowsLabelled(df[i], "FREE_NONZERO_AMOUNT") = {}
                /\ RowsLabelled(df[i], "RETURN_SIGN_MISMATCH") # {} =>
                      ReturnSignViolation(df[i])
                /\ RowsLabelled(df[i], "PRICE_QTY_MISMATCH") # {} =>
                      PriceQtyViolation(df[i])

\* a run with a free record of 0.004 (not labelled) and a free record with a
\* real amount that is labelled FREE_NONZERO_AMOUNT and nothing else
C4_Witness ==
    /\ Ran("quality")
    /\ \E i \in 1..Len(df) :
        /\ df[i].is_free_flag = 1
        /\ df[i].total_amount # 0
        /\ RowsLabelled(df[i], "FREE_NONZERO_AMOUNT") = {}
    /\ \E i \in 1..Len(df) :
        /\ df[i].is_free_flag = 1
        /\ Cardinality(RowsLabelled(df[i], "FREE_NONZERO_AMOUNT")) = 1
        /\ Cardinality({j \in 1..Len(q) : q[j].rec = df[i]}) = 1

Violates(r, label) ==
    CASE label = "FREE_NONZERO_AMOUNT" -> FreeNonzeroViolation(r)
      [] label = "RETURN_SIGN_MISMATCH" -> ReturnSignViolation(r)
      [] label = "PRICE_QTY_MISMATCH" -> PriceQtyViolation(r)

RulesViolated(r) ==
    {label \in {"FREE_NONZERO_AMOUNT", "RETURN_SIGN_MISMATCH", "PRICE_QTY_MISMATCH"} :
        Violates(r, label)}

ViolationCount(label) ==
    Cardinality({i \in 1..Len(df) : label \in RulesViolated(df[i])})

\* C5: the number of rows of q is the sum over the three rules of the number
\* of records of df that violate the rule; a record that violates k rules has
\* k rows, one per label.
C5_RowCount ==
    Ran("quality") =>
        /\ Len(q) = ViolationCount("FREE_NONZERO_AMOUNT")
                      + ViolationCount("RETURN_SIGN_MISMATCH")
                      + ViolationCount("PRICE_QTY_MISMATCH")
        /\ \A i \in 1..Len(df) :
            /\ Cardinality({j \in 1..Len(q) : q[j].rec = df[i]})
                  = Cardinality(RulesViolated(df[i]))
            /\ \A label \in RulesViolated(df[i]) :
                  Cardinality(RowsLabelled(df[i], label)) = 1

\* a run in which one record violates two rules and has two rows, while
\* another record violates none
C5_Witness ==
    /\ Ran("quality")
    /\ \E i \in 1..Len(df) :
        /\ Cardinality(RulesViolated(df[i])) = 2
        /\ Cardinality({j \in 1..Len(q) : q[j].rec = df[i]}) = 2
    /\ \E i \in 1..Len(df) : RulesViolated(df[i]) = {}

-----------------------------------------------------------------------------
(* Inputs of the date filter: dates before, on, between and after the      *)
(* bounds D1 and D2, a missing date and a cell that is no date, under      *)
(* every window over D1 and D2                                             *)

FilterLines ==
    {[Line EXCEPT !.ship_date = d] :
        d \in {DateCell(<<2022, 12, 31>>), DateCell(D1), DateCell(<<2023, 1, 25>>),
               DateCell(D2), DateCell(<<2023, 2, 21>>), EmptyCell, BadCell}}

InitFilter == InitWith(FilterLines, MainConfigs)

\* main up to the date filter
NextFilter ==
    \/ MainLoad
    \/ MainFilter

SpecFilter == InitFilter /\ [][NextFilter]_vars

\* the day count of a date in a calendar of 12 months of 31 days
DayNumber(date) == (date[1] * 12 + date[2]) * 31 + date[3]

InWindow(date) ==
    /\ cfg.start_date # None => (date # NaT /\ DayNumber(cfg.start_date) <= DayNumber(date))
    /\ cfg.end_date # None => (date # NaT /\ DayNumber(date) <= DayNumber(cfg.end_date))

\* C7: filter_by_date returns exactly the records of df_all, in their order,
\* whose ship_date d satisfies start <= d <= end, an omitted bound imposing
\* no restriction: records dated on start or on end are kept, dated records
\* outside are removed, and with both bounds omitted every record is kept.
C7_FilterInclusive ==
    Ran("filter") =>
        /\ df = SelectSeq(df_all, LAMBDA r : InWindow(r.ship_date))
        /\ (cfg.start_date = None /\ cfg.end_date = None) => df = df_all

\* a window with both bounds, a record dated on its start or on its end that
\* is kept, and a dated record outside it that is removed
C7_Witness ==
    /\ Ran("filter")
    /\ cfg.start_date # None
    /\ cfg.end_date # None
    /\ \E i \in 1..Len(df) : df[i].ship_date \in {cfg.start_date, cfg.end_date}
    /\ \E i \in 1..Len(df_all) :
        /\ df_all[i].ship_date # NaT
        /\ \A j \in 1..Len(df) : df[j] # df_all[i]

-----------------------------------------------------------------------------
(* Properties of a whole run of main *)

TableNetSales(t) == SumSeq(Col(t, "NetSales"))

\* C1: for every aggregation pipeline (monthly, customer-group, store,
\* product, region, customer-rep, company-rep) the NetSales of the rows of its
\* table add up to the NetSales of compute_core_kpis on the same collection,
\* also when records have a missing grouping key.
C1_GroupSumsEqualNetSales ==
    Ran("reps") =>
        /\ TableNetSales(mon) = kpis.NetSales
        /\ TableNetSales(cg) = kpis.NetSales
        /\ TableNetSales(store) = kpis.NetSales
        /\ TableNetSales(prod) = kpis.NetSales
        /\ TableNetSales(pref) = kpis.NetSales
        /\ TableNetSales(reps_c) = kpis.NetSales
        /\ TableNetSales(reps_comp) = kpis.NetSales

Inverted ==
    /\ cfg.start_date # None
    /\ cfg.end_date # None
    /\ DayNumber(cfg.start_date) > DayNumber(cfg.end_date)

\* C6: when start and end are both configured and start > end the run is
\* rejected: no quality list, KPI set or aggregation table is produced from
\* the empty filtered collection.
C6_InvertedWindowRejected ==
    Inverted => ~Ran("quality")

\* C8: a record whose ship_date is null is in the collection the quality
\* rules, the scalar KPIs and the non-temporal pipelines are run over, in
\* every run, whether or not a start or an end date is configured.
C8_NullDateRetained ==
    /\ Ran("filter") =>
          \A i \in 1..Len(df_all) :
              df_all[i].ship_date = NaT => \E j \in 1..Len(df) : df[j] = df_all[i]
    /\ Ran("kpis") =>
          kpis.Transactions =
              Cardinality({i \in 1..Len(df_all) :
                  df_all[i].ship_date = NaT \/ InWindow(df_all[i].ship_date)})

DatedIn(ym) ==
    SelectSeq(df, LAMBDA r : r.ship_date # NaT /\ <<r.ship_date[1], r.ship_date[2]>> = ym)

\* C9: records with a null ship_date contribute to no row of the monthly
\* table: every row has a calendar year-month as its key, and its NetSales,
\* Quantity, Transactions and FreeCount are sums over the dated records of
\* that month.
C9_MonthlyExcludesNullDates ==
    Ran("monthly") =>
        \A i \in 1..Len(mon) :
            /\ mon[i].year_month # NaTStr
            /\ mon[i].NetSales = sum_amount(DatedIn(mon[i].year_month))
            /\ mon[i].Quantity = sum_quantity(DatedIn(mon[i].year_month))
            /\ mon[i].Transactions = Len(DatedIn(mon[i].year_month))
            /\ mon[i].FreeCount = sum_free(DatedIn(mon[i].year_month))

RelativeChange(i, lag) ==
    IF i <= lag \/ mon[i - lag].NetSales = 0 THEN NaN
    ELSE Ratio(mon[i].NetSales - mon[i - lag].NetSales, mon[i - lag].NetSales)

\* C10: the monthly table is sorted ascending by year-month; MoM_NetSales of
\* row i is (NetSales[i] - NetSales[i-1]) / NetSales[i-1] and YoY_NetSales the
\* same with row i-12; each is "not available" when the earlier row does not
\* exist or its NetSales is zero, so no infinite value is produced.
C10_RelativeChanges ==
    Ran("monthly") =>
        /\ \A i \in 1..Len(mon) :
            /\ mon[i].MoM_NetSales = RelativeChange(i, 1)
            /\ mon[i].YoY_NetSales = RelativeChange(i, YoYPeriods)
            /\ mon[i].MoM_NetSales.kind \in {"num", "nan"}
            /\ mon[i].YoY_NetSales.kind \in {"num", "nan"}
        /\ \A i \in 1..(Len(mon) - 1) :
            YearMonthLess(mon[i].year_month, mon[i + 1].year_month)

-----------------------------------------------------------------------------
(* Inputs of the aggregations: paid lines, returns and a free line, spread  *)
(* over two billing groups, stores, products, regions, representatives and  *)
(* months, with quantities on both sides of zero and of the first bin       *)
(* boundary, a missing subcategory and a missing store id                  *)

AggLines ==
    {Line,
     \* a second billing group, product group and representative; 10 units
     [Line EXCEPT !.billing_group_id = "B", !.billing_group_name = "B",
                  !.customer_rep_id = "B", !.product_group = "B", !.quantity = 10, !.total_amount = 100000],
     \* a return of 2 units, -20.00
     [Line EXCEPT !.quantity = 0 - 2, !.total_amount = 0 - 20000,
                  !.is_return_flag = 1],
     \* a return of 1 unit in a second region
     [Line EXCEPT !.region = "B", !.quantity = 0 - 1, !.total_amount = 0 - 10000,
                  !.is_return_flag = 1],
     \* a paid line of a second store, shipped after D1
     [Line EXCEPT !.ship_date = DateCell(D2), !.store_id = "B"],
     \* a free line; the billing group id A under a second name
     [Line EXCEPT !.billing_group_name = "B", !.unit_price = 0, !.quantity = 1,
                  !.total_amount = 0, !.is_free_flag = 1],
     \* a positive amount with a negative quantity
     [Line EXCEPT !.quantity = 0 - 2],
     \* a positive amount with quantity 0
     [Line EXCEPT !.quantity = 0],
     \* a paid line without subcategory
     [Line EXCEPT !.product_subcategory = NULL],
     \* a paid line without store id
     [Line EXCEPT !.store_id = NULL],
     \* 11 units of a second product
     [Line EXCEPT !.product_name = "B", !.quantity = 11, !.total_amount = 110000]}

\* no window, and a window that ends on D1
AggConfigs ==
    [start_date : {None}, end_date : {None, D1},
     price_multiplication_tolerance : {DefaultTolerance}]

InitAgg == InitWith(AggLines, AggConfigs)

\* main up to the last aggregation
NextAgg ==
    \/ MainLoad
    \/ MainFilter
    \/ MainQuality
    \/ MainKpis
    \/ MainMonthly
    \/ MainCustomer
    \/ MainProduct
    \/ MainPrefecture
    \/ MainReps
    \/ MainBins

SpecAgg == InitAgg /\ [][NextAgg]_vars

NotAvailableOnZeroPaid(t, col) ==
    \A i \in 1..Len(t) : t[i].PaidSales = 0 => t[i][col] = NaN

\* C11: in every table that reports ReturnRate or an average price (monthly,
\* customer group, store, region; product; quantity bins) a row whose
\* PaidSales is 0 has that ReturnRate or average price "not available", and
\* so have ReturnRate and AvgPricePaid of compute_core_kpis when the
\* PaidSales of the collection is 0.
C11_ZeroDenominator ==
    /\ Ran("kpis") =>
          (kpis.PaidSales = 0 => kpis.ReturnRate = NaN /\ kpis.AvgPricePaid = NaN)
    /\ Ran("monthly") => NotAvailableOnZeroPaid(mon, "ReturnRate")
    /\ Ran("customer") =>
          /\ NotAvailableOnZeroPaid(cg, "ReturnRate")
          /\ NotAvailableOnZeroPaid(store, "ReturnRate")
    /\ Ran("product") => NotAvailableOnZeroPaid(prod, "AvgPricePaid")
    /\ Ran("prefecture") => NotAvailableOnZeroPaid(pref, "ReturnRate")
    /\ Ran("bins") => NotAvailableOnZeroPaid(pq, "AvgPrice")

\* a run over a return and a paid line of another region: the KPIs have a
\* positive PaidSales, the region of the return has PaidSales 0 with
\* Returns > 0 and no ReturnRate, and a product row and a bin have PaidSales 0
C11_Witness ==
    /\ Ran("bins")
    /\ kpis.PaidSales > 0
    /\ \E i \in 1..Len(pref) :
        pref[i].PaidSales = 0 /\ pref[i].Returns > 0 /\ pref[i].ReturnRate = NaN
    /\ \E i \in 1..Len(prod) : prod[i].PaidSales = 0 /\ prod[i].AvgPricePaid = NaN
    /\ \E i \in 1..Len(pq) : pq[i].PaidSales = 0 /\ pq[i].AvgPrice = NaN

\* the rows of the monthly table with their key as the other tables have it
MonthlyKeyed == [i \in 1..Len(mon) |-> mon[i] @@ [key |-> <<mon[i].year_month>>]]

InGroup(r, keys, k) == \A j \in 1..Len(keys) : r[keys[j]] = k[j]

\* one row for every group of the primary grouping
GroupsPresent(t, keys) ==
    /\ {t[i].key : i \in 1..Len(t)} = group_keys(df, categories, keys)
    /\ Len(t) = Cardinality(group_keys(df, categories, keys))

PaidSalesDefault(t, keys) ==
    \A i \in 1..Len(t) :
        (~\E j \in 1..Len(df) : InGroup(df[j], keys, t[i].key) /\ df[j].total_amount > 0)
            => t[i].PaidSales = 0

ReturnsDefault(t, keys) ==
    \A i \in 1..Len(t) :
        (~\E j \in 1..Len(df) : InGroup(df[j], keys, t[i].key) /\ df[j].is_return_flag = 1)
            => t[i].Returns = 0

TuplesOf(keys) == {KeyOf(df[j], keys) : j \in 1..Len(df)}

LiteralKeyTuples(t, keys) ==
    /\ {t[i].key : i \in 1..Len(t)} = TuplesOf(keys)
    /\ Len(t) = Cardinality(TuplesOf(keys))
    /\ \A i \in 1..Len(t) : t[i].Transactions >= 1

\* C13: the rows of a multi-key table are exactly the distinct key tuples
\* that occur in the records: the customer-group table has one row per
\* (billing_group_id, billing_group_name) pair some record carries and none
\* for a pair no record carries, so every row has Transactions >= 1; likewise
\* the store table and the two representative tables.
C13_LiteralKeyTuples ==
    /\ Ran("customer") =>
          /\ LiteralKeyTuples(cg, cg_keys)
          /\ LiteralKeyTuples(store, st_keys)
    /\ Ran("reps") =>
          /\ LiteralKeyTuples(reps_c, cust_keys)
          /\ LiteralKeyTuples(reps_comp, comp_keys)

\* the quantity q lies in the i-th bin (lower edge, upper edge], the last bin
\* having no upper edge
InBin(qn, i) ==
    /\ BinEdges[i] < qn
    /\ i < Len(BinEdges) => qn <= BinEdges[i + 1]

PaidCountInBin(i) ==
    Cardinality({j \in 1..Len(df) : df[j].total_amount > 0 /\ InBin(df[j].quantity, i)})

\* C14: the quantity bins partition the paid records: the PaidSales of the
\* bins add up to the PaidSales KPI and their Transactions to the number of
\* records with total_amount > 0 (none with total_amount <= 0 is counted),
\* and the Transactions of a bin count the paid records whose quantity lies
\* in (lower edge, upper edge], the upper edge included.
C14_BinsPartition ==
    Ran("bins") =>
        /\ SumSeq(Col(pq, "PaidSales")) = kpis.PaidSales
        /\ SumSeq(Col(pq, "Transactions")) =
              Cardinality({j \in 1..Len(df) : df[j].total_amount > 0})
        /\ \A i \in 1..Len(pq) :
              /\ pq[i].qty_bin = BinLabels[i]
              /\ pq[i].Transactions = PaidCountInBin(i)

\* the sum of quantity over the records with total_amount > 0
PaidQuantity ==
    SumSeq([j \in 1..Len(df) |->
                IF df[j].total_amount > 0 THEN df[j].quantity ELSE 0])

\* C15: AvgPricePaid of compute_core_kpis is PaidSales / Q, Q the sum of
\* quantity over the records with total_amount > 0, whenever Q # 0, and is
\* "not available" exactly when Q = 0.
C15_AvgPricePaid ==
    Ran("kpis") =>
        IF PaidQuantity # 0
        THEN kpis.AvgPricePaid = Ratio(kpis.PaidSales, PaidQuantity)
        ELSE kpis.AvgPricePaid = NaN

\* the collection as filter_by_date returned it
Filtered == filter_by_date(df_all, cfg.start_date, cfg.end_date)

ResultsOfFiltered ==
    /\ q = run_quality_checks(Filtered, cfg.price_multiplication_tolerance)
    /\ kpis = compute_core_kpis(Filtered)
    /\ mon = monthly_summary(Filtered, categories)
    /\ <<cg, store>> = customer_hierarchy_summaries(Filtered, categories)
    /\ prod = product_summaries(Filtered, categories)
    /\ pref = prefecture_summary(Filtered, categories)
    /\ <<reps_c, reps_comp>> = reps_summaries(Filtered, categories)
    /\ pq = price_quantity_bins(Filtered)

DistinctBillingGroups(k) ==
    Cardinality({df[j].billing_group_id :
                    j \in {n \in 1..Len(df) : InGroup(df[n], cust_keys, k)}} \ {NULL})

\* C19: the customer-side representative table is keyed by the pair
\* (customer_rep_id, customer_rep_name) and every row reports, as Customers,
\* the number of distinct billing_group_id values among the records of that
\* representative; the company-side table is keyed by the triple
\* (company_rep_id, company_rep_name, company_rep_territory).
C19_RepTables ==
    Ran("reps") =>
        /\ \A i \in 1..Len(reps_c) :
            /\ Len(reps_c[i].key) = Len(<<"customer_rep_id", "customer_rep_name">>)
            /\ "Customers" \in DOMAIN reps_c[i]
            /\ reps_c[i].Customers = DistinctBillingGroups(reps_c[i].key)
        /\ \A i \in 1..Len(reps_comp) :
            Len(reps_comp[i].key) =
                Len(<<"company_rep_id", "company_rep_name", "company_rep_territory">>)

\* C20: for every product_group, the NetSales of re-grouping the records on
\* product_group alone equals the sum of the NetSales of the rows of the
\* (product_group, product_subcategory, product_name) table that carry the
\* group, also when a subcategory or a product name is missing.
C20_ProductRollup ==
    Ran("product") =>
        \A k \in DOMAIN product_group_rollup(df) :
            product_group_rollup(df)[k] =
                TableNetSales(SelectSeq(prod, LAMBDA r : r.key[1] = k[1]))

\* the store-table rows of the billing group k
StoreRowsOf(k) ==
    SelectSeq(store, LAMBDA r : r.key[1] = k[1] /\ r.key[2] = k[2])

RollupFields == {"NetSales", "Quantity", "Transactions", "Returns", "PaidSales"}

\* C24: every row of the customer-group table has the NetSales, Quantity,
\* Transactions, Returns and PaidSales that the store-table rows of the same
\* (billing_group_id, billing_group_name) add up to, also when records of the
\* group have no store_id or store_name.
C24_StoreRollup ==
    Ran("customer") =>
        \A i \in 1..Len(cg) :
            \A f \in RollupFields :
                cg[i][f] = SumSeq(Col(StoreRowsOf(cg[i].key), f))

-----------------------------------------------------------------------------
(* Files that lack a column: every header with one column missing, and the  *)
(* full header                                                              *)

Headers == {AllColumns} \cup {AllColumns \ {c} : c \in AllColumns}

InitColumns == InitState({Line}, QualityConfigs, Headers)

SpecColumns == InitColumns /\ [][Next]_vars

\* C18: when the file lacks a required column the run aborts before the
\* quality check and before any aggregation has run: it never gets past
\* run_quality_checks.
C18_MissingColumnAborts ==
    columns # AllColumns => ~Ran("quality")

-----------------------------------------------------------------------------
(* Inputs of the year-over-year column: lines shipped in January 2022, in   *)
(* January 2023 and in February 2023, so that a month and the same month    *)
(* of the year before both have a row with no row for the months between    *)

D0 == <<2022, 1, 10>>

YoYLines ==
    {[Line EXCEPT !.ship_date = DateCell(D0)],
     [Line EXCEPT !.ship_date = DateCell(D0), !.quantity = 2, !.total_amount = 20000],
     [Line EXCEPT !.quantity = 10, !.total_amount = 100000],
     [Line EXCEPT !.ship_date = DateCell(D2), !.quantity = 3, !.total_amount = 30000],
     [Line EXCEPT !.ship_date = EmptyCell],
     [Line EXCEPT !.quantity = 0 - 1, !.total_amount = 0 - 10000, !.is_return_flag = 1]}

InitYoY == InitWith(YoYLines, QualityConfigs)

\* main up to the monthly table
NextYoY ==
    \/ MainLoad
    \/ MainFilter
    \/ MainQuality
    \/ MainKpis
    \/ MainMonthly

SpecYoY == InitYoY /\ [][NextYoY]_vars

\* the rows of the monthly table for the calendar month one year before row i
SameMonthLastYear(i) ==
    {j \in 1..Len(mon) :
        mon[j].year_month = <<mon[i].year_month[1] - 1, mon[i].year_month[2]>>}

\* C21: YoY_NetSales of a month is the relative change against the NetSales
\* of the same calendar month one year earlier, and "not available" when that
\* month has no row, whether or not the months between the two have rows.
C21_YoYSameCalendarMonth ==
    Ran("monthly") =>
        \A i \in 1..Len(mon) :
            mon[i].year_month # NaTStr =>
                /\ SameMonthLastYear(i) = {} => mon[i].YoY_NetSales = NaN
                /\ \A j \in SameMonthLastYear(i) :
                       mon[j].NetSales # 0 =>
                           mon[i].YoY_NetSales =
                               Ratio(mon[i].NetSales - mon[j].NetSales, mon[j].NetSales)

-----------------------------------------------------------------------------
(* Whole runs that may fail at any statement before the files are written:  *)
(* a file that lacks a column, a ship_date that is no date, any window,     *)
(* figures that raise                                                       *)

OutputLines == {Line, [Line EXCEPT !.ship_date = BadCell]}

InitOutput == InitState(OutputLines, MainConfigs, Headers)

SpecOutput == InitOutput /\ [][Next]_vars

\* C22: no output file is written before the quality check, the KPI set, every
\* aggregation table and the dashboard fragments have been computed: a step
\* adds a file only once build_figures and build_dashboard_html have returned,
\* and a run that raised in loading, filtering, validation or aggregation has
\* written no file.
C22_NoOutputBeforeResults ==
    /\ [][files' # files => Ran("figures") /\ html_full]_vars
    /\ [](files # {} => Ran("figures") /\ html_full)
    /\ [](pc = "raised" => files = {})

\* a run that computed the quality check, the KPIs and the monthly table and
\* then raised in a later aggregation, with no file written
C22_Witness ==
    /\ pc = "raised"
    /\ df_all # <<>>
    /\ kpis # NoKpis
    /\ mon # <<>>
    /\ ~html_full
    /\ files = {}

-----------------------------------------------------------------------------
(* The KPI set over the inputs of the quality rules: amounts on both sides  *)
(* of zero under every pair of flags                                        *)

InitKpis == InitWith(QualityLines, QualityConfigs)

\* main up to the KPI set
NextKpis ==
    \/ MainLoad
    \/ MainFilter
    \/ MainQuality
    \/ MainKpis

SpecKpis == InitKpis /\ [][NextKpis]_vars

\* every negative amount is return-flagged and no return has a positive amount
ReturnsAreTheNegatives ==
    \A i \in 1..Len(df) :
        /\ df[i].total_amount < 0 => df[i].is_return_flag = 1
        /\ df[i].is_return_flag = 1 => df[i].total_amount <= 0

\* C23: for every collection compute_core_kpis gives PaidSales >= 0,
\* Returns >= 0 and NetSales <= PaidSales; and when every record with a
\* negative amount is return-flagged and every return-flagged record has an
\* amount <= 0, NetSales = PaidSales - Returns.
C23_KpiSigns ==
    Ran("kpis") =>
        /\ kpis.PaidSales >= 0
        /\ kpis.Returns >= 0
        /\ kpis.NetSales <= kpis.PaidSales
        /\ ReturnsAreTheNegatives => kpis.NetSales = kpis.PaidSales - kpis.Returns

\* a paid line and a return, flagged as the claim requires
C23_Witness ==
    /\ Ran("kpis")
    /\ ReturnsAreTheNegatives
    /\ kpis.PaidSales > 0
    /\ kpis.Returns > 0
    /\ kpis.NetSales = kpis.PaidSales - kpis.Returns

\* without the flags the identity fails: an unflagged negative amount
C23_UnflaggedNegative ==
    /\ Ran("kpis")
    /\ ~ReturnsAreTheNegatives
    /\ kpis.NetSales # kpis.PaidSales - kpis.Returns

====
